---- MODULE Spec2Model ----
(***************************************************************************)
(* A model of capsule_api.py: the entity classes (dict subclasses with     *)
(* derived accessors) and the CapsuleAPI client that builds them from the  *)
(* server's JSON.                                                          *)
(*                                                                         *)
(* Python values are modelled as follows.                                  *)
(*   - a dict is a function whose DOMAIN is the set of keys present;       *)
(*   - a list is a sequence;                                               *)
(*   - a timestamp string "YYYY-MM-DDTHH:00:00Z" is the tuple of its       *)
(*     zero-padded fields <<YYYY, MM, DD, HH>>, so that the order of the   *)
(*     strings is the lexicographic order of the tuples;                   *)
(*   - a numeric string is the sequence of its digits;                     *)
(*   - the outcome of a call is a record [kind, val]: kind "ok" with the   *)
(*     returned value, or kind "raise" with the exception's class name.    *)
(***************************************************************************)
EXTENDS Integers, Sequences, FiniteSets, TLC

VARIABLES
    self,       \* the backing record of the entity under test (a dict)
    arg,        \* the custom-field list the caller passes to the entity
    ret,        \* the outcome of the last accessor or method call on it
    pc,         \* the client operation's position
    log,        \* the requests the client has issued, in order, each with
                \* the server's response
    entities,   \* the entities the client operation has built so far
    idx,        \* the index of the entity the client is enriching
    out         \* the outcome of the client operation

vars == <<self, arg, ret, pc, log, entities, idx, out>>
entityVars == <<self, arg, ret>>
clientVars == <<pc, log, entities, idx, out>>

(***************************************************************************)
(* Bounds of the model.                                                    *)
(***************************************************************************)
MaxEntries == 3
MaxListing == 2
MaxTasks == 2

(***************************************************************************)
(* Python helpers.                                                         *)
(***************************************************************************)
Has(d, k) == k \in DOMAIN d

Ok(v) == [kind |-> "ok", val |-> v]
Raise(e) == [kind |-> "raise", val |-> e]
NoneVal == [type |-> "NoneType"]
None == Ok(NoneVal)

\* the outcome o of the call named op
Call(op, o) == [op |-> op, kind |-> o.kind, val |-> o.val]
NoCall == Call("none", None)

SeqsUpTo(S, n) == UNION {[1..k -> S] : k \in 0..n}

\* d[k] = v, as a new dict
Put(d, k, v) == [x \in DOMAIN d \cup {k} |-> IF x = k THEN v ELSE d[x]]

Range(s) == {s[i] : i \in DOMAIN s}

\* the least index at which the sequence of booleans holds TRUE, or 0
FirstTrue(b) ==
    IF \E i \in DOMAIN b : b[i]
    THEN CHOOSE i \in DOMAIN b : b[i] /\ \A j \in 1..(i - 1) : ~b[j]
    ELSE 0

\* the order of Python strings of one fixed-width format: lexicographic
RECURSIVE StrLess(_, _)
StrLess(a, b) ==
    IF a = <<>> THEN b # <<>>
    ELSE IF b = <<>> THEN FALSE
    ELSE IF Head(a) # Head(b) THEN Head(a) < Head(b)
    ELSE StrLess(Tail(a), Tail(b))

(***************************************************************************)
(* capsule_datetime_to_utc_aware and datetime.date().                      *)
(***************************************************************************)
\* strptime(datetime_string, '%Y-%m-%dT%H:%M:%SZ') accepts the string
MatchesFormat(s) ==
    /\ Len(s) = 4
    /\ s[2] \in 1..12
    /\ s[3] \in 1..31
    /\ s[4] \in 0..23

capsule_datetime_to_utc_aware(s) ==
    IF MatchesFormat(s) THEN Ok(s) ELSE Raise("ValueError")

\* datetime.date(): the date component <<YYYY, MM, DD>>
date(dt) == <<dt[1], dt[2], dt[3]>>

DateLeq(a, b) == a = b \/ StrLess(a, b)

(***************************************************************************)
(* CustomFieldsMixin                                                       *)
(***************************************************************************)
PyBool(b) == IF b THEN "True" ELSE "False"
StrVal(s) == [type |-> "str", s |-> s]
BoolVal(b) == [type |-> "bool", b |-> PyBool(b)]

\* to_tuple comparing the boolean without regard to case
to_tuple_anycase(entry) ==
    IF Has(entry, "text")
    THEN IF Has(entry, "label") THEN Ok(<<entry.label, StrVal(entry.text)>>)
         ELSE Raise("KeyError")
    ELSE IF Has(entry, "boolean")
    THEN IF Has(entry, "label")
         THEN Ok(<<entry.label, BoolVal(entry.boolean \in {"true", "True"})>>)
         ELSE Raise("KeyError")
    ELSE IF Has(entry, "number")
    THEN IF Has(entry, "label") THEN Ok(<<entry.label, StrVal(entry.number)>>)
         ELSE Raise("KeyError")
    ELSE Raise("ValueError")

to_tuple(entry) ==
    IF Has(entry, "text")
    THEN IF Has(entry, "label") THEN Ok(<<entry.label, StrVal(entry.text)>>)
         ELSE Raise("KeyError")
    ELSE IF Has(entry, "boolean")
    THEN IF Has(entry, "label")
         THEN Ok(<<entry.label, BoolVal(entry.boolean = "true")>>)
         ELSE Raise("KeyError")
    ELSE IF Has(entry, "number")
    THEN IF Has(entry, "label") THEN Ok(<<entry.label, StrVal(entry.number)>>)
         ELSE Raise("KeyError")
    ELSE Raise("ValueError")

\* dict(pairs): each key maps to the value of its last pair
dict(pairs) ==
    [k \in {p[1] : p \in Range(pairs)} |->
        LET last == CHOOSE i \in DOMAIN pairs :
                        /\ pairs[i][1] = k
                        /\ \A j \in DOMAIN pairs : pairs[j][1] = k => j <= i
        IN pairs[last][2]]

\* self.get('raw_customfields') or self['customfields']
custom_fields_source(d) ==
    IF Has(d, "raw_customfields") /\ d.raw_customfields # <<>>
    THEN Ok(d.raw_customfields)
    ELSE IF Has(d, "customfields") THEN Ok(d.customfields)
    ELSE Raise("KeyError")

\* dict(to_tuple(x) for x in custom_fields), and the except clause around it:
\* the first entry that raises ends the generator
fields_of(custom_fields) ==
    LET bad == FirstTrue([i \in DOMAIN custom_fields |->
                              to_tuple(custom_fields[i]).kind = "raise"]) IN
    IF bad = 0
    THEN Ok(dict([i \in DOMAIN custom_fields |-> to_tuple(custom_fields[i]).val]))
    ELSE IF to_tuple(custom_fields[bad]).val = "KeyError" THEN Raise("AttributeError")
    ELSE Raise("ValueError")

\* the customfields property; the AttributeError it raises sends Python to
\* __getattr__('customfields'), which raises AttributeError again
customfields(d) ==
    LET src == custom_fields_source(d) IN
    IF src.kind = "raise" THEN Raise("AttributeError")
    ELSE fields_of(src.val)

\* Opportunity.__getattr__ and Party.__getattr__
getattr_fallback(d, element) ==
    IF element = "customfields" THEN Raise("AttributeError")
    ELSE IF Has(d, element) THEN Ok(d[element])
    ELSE LET cf == customfields(d) IN
         IF cf.kind = "raise" THEN cf
         ELSE IF Has(cf.val, element) THEN Ok(cf.val[element])
         ELSE Raise("AttributeError")

\* sorted(s, key=lambda x: x['date']): a stable sort
RECURSIVE sorted_by_date(_)
sorted_by_date(s) ==
    IF s = <<>> THEN <<>>
    ELSE LET rest == sorted_by_date(SubSeq(s, 1, Len(s) - 1))
             x == s[Len(s)]
             \* x goes after every element whose key is not greater
             n == Cardinality({i \in DOMAIN rest : ~StrLess(x.date, rest[i].date)})
         IN SubSeq(rest, 1, n) \o <<x>> \o SubSeq(rest, n + 1, Len(rest))

\* OrderedDict(pairs): a key keeps the place of its first pair and takes the
\* value of its last one
RECURSIVE OrderedDict(_)
OrderedDict(pairs) ==
    IF pairs = <<>> THEN <<>>
    ELSE LET init == OrderedDict(SubSeq(pairs, 1, Len(pairs) - 1))
             p == pairs[Len(pairs)]
         IN IF \E i \in DOMAIN init : init[i][1] = p[1]
            THEN [i \in DOMAIN init |-> IF init[i][1] = p[1] THEN p ELSE init[i]]
            ELSE Append(init, p)

\* x.get('tag') or x['label']
tag_or_label(x) ==
    IF Has(x, "tag") /\ x.tag # "" THEN Ok(x.tag)
    ELSE IF Has(x, "label") THEN Ok(x.label)
    ELSE Raise("KeyError")

\* one pair of the generator in datatags
datatag_pair(x) ==
    IF tag_or_label(x).kind = "raise" THEN Raise("KeyError")
    ELSE IF capsule_datetime_to_utc_aware(x.date).kind = "raise" THEN Raise("ValueError")
    ELSE Ok(<<tag_or_label(x).val, date(capsule_datetime_to_utc_aware(x.date).val)>>)

\* the body of the datatags property
datatags_getter(d) ==
    IF ~Has(d, "raw_datatags") THEN Raise("AttributeError")
    ELSE LET s == sorted_by_date(d.raw_datatags)
             bad == FirstTrue([i \in DOMAIN s |-> datatag_pair(s[i]).kind = "raise"])
         IN IF bad = 0 THEN Ok(OrderedDict([i \in DOMAIN s |-> datatag_pair(s[i]).val]))
            ELSE IF datatag_pair(s[bad]).val = "KeyError" THEN Raise("AttributeError")
            ELSE Raise("ValueError")

\* the attribute datatags: an AttributeError of the property sends Python to
\* __getattr__('datatags')
datatags(d) ==
    LET o == datatags_getter(d) IN
    IF o.kind = "raise" /\ o.val = "AttributeError" THEN getattr_fallback(d, "datatags")
    ELSE o

(***************************************************************************)
(* The entity's operations.                                                *)
(***************************************************************************)
\* the backing record d after d.load_customfields_from_api(cf)
with_customfields(d, cf) ==
    Put(Put(d, "raw_customfields", SelectSeq(cf, LAMBDA x : ~Has(x, "date"))),
        "raw_datatags", SelectSeq(cf, LAMBDA x : Has(x, "date")))

load_customfields_from_api ==
    /\ self' = with_customfields(self, arg)
    /\ ret' = Call("load_customfields_from_api", None)
    /\ UNCHANGED <<arg, clientVars>>

get_customfields ==
    /\ ret' = Call("customfields", customfields(self))
    /\ UNCHANGED <<self, arg, clientVars>>

get_datatags ==
    /\ ret' = Call("datatags", datatags(self))
    /\ UNCHANGED <<self, arg, clientVars>>

(***************************************************************************)
(* Custom fields of an Opportunity or Party.                               *)
(***************************************************************************)
PlainEntries ==
    { [label |-> "x", text |-> "t"],
      [label |-> "x", boolean |-> "true"],
      [label |-> "y", boolean |-> "True"],
      [label |-> "y", number |-> "7"],
      [label |-> "y"],
      [text |-> "t"] }

DatedEntries ==
    { [tag |-> "a", label |-> "Date", date |-> <<2021, 1, 5, 0>>],
      [tag |-> "b", label |-> "Date", date |-> <<2021, 2, 1, 0>>],
      [tag |-> "a", label |-> "Date", date |-> <<2021, 3, 1, 0>>],
      [label |-> "x", date |-> <<2021, 2, 1, 9>>] }

LegacyLists == { <<>>, <<[label |-> "old", text |-> "t"]>> }

IdleClient ==
    /\ pc = "idle"
    /\ log = <<>>
    /\ entities = <<>>
    /\ idx = 0
    /\ out = NoCall

InitFields ==
    /\ self \in {[id |-> "1"]} \cup {[id |-> "1", customfields |-> l] : l \in LegacyLists}
    /\ arg \in SeqsUpTo(PlainEntries \cup DatedEntries, MaxEntries)
    /\ ret = NoCall
    /\ IdleClient

NextFields ==
    \/ load_customfields_from_api
    \/ get_customfields
    \/ get_datatags

SpecFields == InitFields /\ [][NextFields]_vars

(***************************************************************************)
(* Party, Person                                                           *)
(***************************************************************************)
DictVal(o) == [type |-> "dict", d |-> o]
ListVal(l) == [type |-> "list", l |-> l]

\* the truth value of a Python value
Truthy(x) ==
    CASE x.type = "str" -> x.s # ""
      [] x.type = "bool" -> x.b = "True"
      [] x.type = "dict" -> DOMAIN x.d # {}
      [] x.type = "list" -> x.l # <<>>
      [] x.type = "NoneType" -> FALSE

\* an instance of class cls built from the raw record
Wrap(cls, raw) == [cls |-> cls, raw |-> raw]

\* the contacts property: self['contacts'] or {}
contacts(d) ==
    IF ~Has(d, "contacts") THEN Raise("KeyError")
    ELSE IF Truthy(d.contacts) THEN Ok(d.contacts.d)
    ELSE Ok(<<>>)

\* the body shared by the emails and phone_numbers properties
contact_list(d, key, attr, cls) ==
    LET c == contacts(d) IN
    IF c.kind = "raise" THEN c
    ELSE IF ~Has(c.val, key) \/ ~Truthy(c.val[key])
    \* raise AttributeError(attr): Python then calls __getattr__(attr)
    THEN getattr_fallback(d, attr)
    ELSE IF c.val[key].type = "dict" THEN Ok(<<Wrap(cls, c.val[key].d)>>)
    ELSE Ok([i \in DOMAIN c.val[key].l |-> Wrap(cls, c.val[key].l[i])])

emails(d) == contact_list(d, "email", "emails", "Email")

phone_numbers(d) == contact_list(d, "phone", "phone_numbers", "Phone")

\* getattr(self, attr, None) for the properties first_name and last_name: the
\* property returns self[key]; its AttributeError sends Python to
\* __getattr__(attr), and getattr's default swallows AttributeError only
getattr_default(d, key, attr) ==
    IF Has(d, key) THEN Ok(d[key])
    ELSE LET o == getattr_fallback(d, attr) IN
         IF o.kind = "raise" /\ o.val = "AttributeError" THEN None
         ELSE o

\* Person.name; the joined string is the sequence of its space-separated parts
name(d) ==
    LET first == getattr_default(d, "firstName", "first_name")
        last == getattr_default(d, "lastName", "last_name")
        Kept(o) == o.kind = "ok" /\ Truthy(o.val)
        parts == (IF Kept(first) THEN <<first.val>> ELSE <<>>)
                     \o (IF Kept(last) THEN <<last.val>> ELSE <<>>)
    IN
    IF first.kind = "raise" THEN first
    ELSE IF last.kind = "raise" THEN last
    ELSE IF \E i \in DOMAIN parts : parts[i].type # "str" THEN Raise("TypeError")
    ELSE IF parts = <<>> THEN Raise("Exception")
    ELSE Ok([i \in DOMAIN parts |-> parts[i].s])

get_emails ==
    /\ ret' = Call("emails", emails(self))
    /\ UNCHANGED <<self, arg, clientVars>>

get_phone_numbers ==
    /\ ret' = Call("phone_numbers", phone_numbers(self))
    /\ UNCHANGED <<self, arg, clientVars>>

get_name ==
    /\ ret' = Call("name", name(self))
    /\ UNCHANGED <<self, arg, clientVars>>

EmailA == [id |-> "1", emailAddress |-> "a@x"]
EmailB == [id |-> "2", emailAddress |-> "b@x"]
PhoneA == [id |-> "3", phoneNumber |-> "555"]
PhoneB == [id |-> "4", phoneNumber |-> "777"]

ContactsValues ==
    { StrVal(""),
      DictVal([phone |-> DictVal(PhoneA)]),
      DictVal([email |-> DictVal(EmailA)]),
      DictVal([email |-> ListVal(<<EmailB, EmailA>>),
               phone |-> ListVal(<<PhoneB, PhoneA>>)]) }

FirstNames == {StrVal(""), StrVal("Ann")}
LastNames == {StrVal(""), StrVal("Lee")}

PersonEntries ==
    { [label |-> "first_name", text |-> "Bob"],
      [label |-> "last_name", boolean |-> "true"],
      [label |-> "q"] }

\* the dict with the keys of ks, each with its value in d
Restrict(d, ks) == [k \in ks |-> d[k]]

InitParty ==
    /\ \E c \in ContactsValues, f \in FirstNames, l \in LastNames,
          ks \in SUBSET {"contacts", "firstName", "lastName"} :
           self = Restrict([id |-> "42", contacts |-> c, firstName |-> f, lastName |-> l],
                           ks \cup {"id"})
    /\ arg \in SeqsUpTo(PersonEntries, MaxEntries - 1)
    /\ ret = NoCall
    /\ IdleClient

NextParty ==
    \/ load_customfields_from_api
    \/ get_emails
    \/ get_phone_numbers
    \/ get_name

SpecParty == InitParty /\ [][NextParty]_vars

(***************************************************************************)
(* Opportunity                                                             *)
(***************************************************************************)
\* int(s) of a string given as the sequence of its characters, a digit being
\* its number
RECURSIVE int_digits(_)
int_digits(s) ==
    IF s = <<>> THEN 0
    ELSE 10 * int_digits(SubSeq(s, 1, Len(s) - 1)) + s[Len(s)]

int(s) ==
    IF s = <<>> \/ \E i \in DOMAIN s : s[i] \notin 0..9 THEN Raise("ValueError")
    ELSE Ok(int_digits(s))

open(d) == ~Has(d, "actualCloseDate")

probability(d) ==
    IF ~Has(d, "probability") THEN Raise("KeyError")
    ELSE int(d.probability)

\* not self.open and self.probability == p
outcome_is(d, p) ==
    IF open(d) THEN Ok(BoolVal(FALSE))
    ELSE IF probability(d).kind = "raise" THEN probability(d)
    ELSE Ok(BoolVal(probability(d).val = p))

\* positive_outcome that does not look at open
positive_outcome_when_open(d) ==
    IF probability(d).kind = "raise" THEN probability(d)
    ELSE Ok(BoolVal(probability(d).val = 100))

positive_outcome(d) == outcome_is(d, 100)

negative_outcome(d) == outcome_is(d, 0)

\* x.get('opportunityId') != self.id, for a self.id that was found
other_owner(x, id) == ~Has(x, "opportunityId") \/ x.opportunityId # id

\* the ownership test that lets a task without opportunityId pass
tasks_to_reject_if_present(tasks, id) ==
    {i \in DOMAIN tasks : Has(tasks[i], "opportunityId") /\ tasks[i].opportunityId # id}

\* the elements any() looks at: (x for x in tasks if x.get('opportunityId') !=
\* self.id), of which any() takes the truth value, a dict being true when it
\* has a key
tasks_to_reject(tasks, id) ==
    {i \in DOMAIN tasks : other_owner(tasks[i], id) /\ DOMAIN tasks[i] # {}}

\* the lists a Python value iterates as: a list gives the objects it holds,
\* a dict its keys in the order they were inserted
Iterations(x) ==
    IF x.type = "list" THEN {[i \in DOMAIN x.l |-> DictVal(x.l[i])]}
    ELSE {s \in [1..Cardinality(DOMAIN x.d) -> {StrVal(k) : k \in DOMAIN x.d}] :
              \A i, j \in DOMAIN s : s[i] = s[j] => i = j}

\* the tags accessor: list(x['name'] for x in self['tags_id'])
tags(d) ==
    IF ~Has(d, "tags_id") THEN Raise("KeyError")
    ELSE LET t == d.tags_id
             bad == FirstTrue([i \in DOMAIN t |->
                                  t[i].type # "dict" \/ ~Has(t[i].d, "name")])
         IN IF bad = 0 THEN Ok([i \in DOMAIN t |-> t[i].d.name])
            ELSE IF t[bad].type # "dict" THEN Raise("TypeError")
            ELSE Raise("KeyError")

load_tags_from_api(tag_list) ==
    /\ \E items \in Iterations(tag_list) : self' = Put(self, "tags_id", items)
    /\ ret' = Call("load_tags_from_api", None)
    /\ UNCHANGED <<arg, clientVars>>

\* self.id is looked up, through __getattr__, once for each task
load_tasks_from_api(tasks) ==
    LET id == getattr_fallback(self, "id")
        o == IF tasks = <<>> THEN None
             ELSE IF id.kind = "raise" THEN id
             ELSE IF tasks_to_reject(tasks, id.val) # {} THEN Raise("Exception")
             ELSE None
    IN
    /\ self' = IF o.kind = "ok" THEN Put(self, "raw_tasks", tasks) ELSE self
    /\ ret' = [op |-> "load_tasks_from_api", kind |-> o.kind, val |-> o.val,
               args |-> tasks]
    /\ UNCHANGED <<arg, clientVars>>

get_open ==
    /\ ret' = Call("open", Ok(BoolVal(open(self))))
    /\ UNCHANGED <<self, arg, clientVars>>

get_positive_outcome ==
    /\ ret' = Call("positive_outcome", positive_outcome(self))
    /\ UNCHANGED <<self, arg, clientVars>>

get_negative_outcome ==
    /\ ret' = Call("negative_outcome", negative_outcome(self))
    /\ UNCHANGED <<self, arg, clientVars>>

TagA == [id |-> "7", name |-> "vip"]
TagB == [id |-> "8", name |-> "new"]

TagsValues == {ListVal(<<>>), ListVal(<<TagB, TagA>>), DictVal(TagA)}

Tasks ==
    { [id |-> "t1", opportunityId |-> "1"],
      [id |-> "t2", opportunityId |-> "2"],
      [id |-> "t3"] }

Probabilities == {<<0>>, <<5, 0>>, <<1, 0, 0>>, <<>>}

OpportunityEntries == {[label |-> "actualCloseDate", text |-> "t"]}

InitOpportunity ==
    /\ \E p \in Probabilities, ks \in SUBSET {"actualCloseDate"} :
           self = Restrict([id |-> "1", probability |-> p,
                            actualCloseDate |-> <<2021, 3, 1, 0>>],
                           ks \cup {"id", "probability"})
    /\ arg \in SeqsUpTo(OpportunityEntries, 1)
    /\ ret = NoCall
    /\ IdleClient

NextOpportunity ==
    \/ load_customfields_from_api
    \/ \E t \in TagsValues : load_tags_from_api(t)
    \/ \E tasks \in SeqsUpTo(Tasks, MaxTasks) : load_tasks_from_api(tasks)
    \/ get_open
    \/ get_positive_outcome
    \/ get_negative_outcome

SpecOpportunity == InitOpportunity /\ [][NextOpportunity]_vars

(***************************************************************************)
(* CapsuleAPI                                                              *)
(*                                                                         *)
(* A response is [status, body]: status "error" is a non-2xx answer, on    *)
(* which raise_for_status raises; body is the decoded JSON object.         *)
(***************************************************************************)
\* CapsuleAPI.request with method 'get'
request_get(resp) ==
    IF resp.status = "error" THEN Raise("HTTPError") ELSE Ok(resp.body)

\* one request of the log
Sent(path, resp) == [req |-> path, resp |-> resp]

\* d.get(key): the value, or None
dict_get(d, key) == IF Has(d, key) THEN d[key] ELSE NoneVal

\* if not result: return []; if isinstance(result, dict): result = [result]
as_list(result) ==
    IF ~Truthy(result) THEN <<>>
    ELSE IF result.type = "dict" THEN <<result.d>>
    ELSE result.l

\* as_list without the isinstance test, as in opportunity_tags:
\* result['tags'].get('tag') or []
or_empty_list(result) == IF ~Truthy(result) THEN ListVal(<<>>) ELSE result

\* self.get(path)[envelope].get(element), then the list of cls instances
listing(resp, envelope, element, cls) ==
    LET r == request_get(resp) IN
    IF r.kind = "raise" THEN r
    ELSE IF ~Has(r.val, envelope) THEN Raise("KeyError")
    ELSE LET l == as_list(dict_get(r.val[envelope], element)) IN
         Ok([i \in DOMAIN l |-> Wrap(cls, l[i])])

opportunities(resp) == listing(resp, "opportunities", "opportunity", "Opportunity")

milestones(resp) == listing(resp, "milestones", "milestone", "dict")

users(resp) == listing(resp, "users", "user", "dict")

\* self.get('tasks')['tasks']['task']
tasks(resp) ==
    LET r == request_get(resp) IN
    IF r.kind = "raise" THEN r
    ELSE IF ~Has(r.val, "tasks") THEN Raise("KeyError")
    ELSE IF ~Has(r.val.tasks, "task") THEN Raise("KeyError")
    ELSE LET l == as_list(r.val.tasks.task) IN
         Ok([i \in DOMAIN l |-> Wrap("Task", l[i])])

\* result.get('history', {}).get('historyItem')
history(resp) ==
    LET r == request_get(resp) IN
    IF r.kind = "raise" THEN r
    ELSE LET h == IF Has(r.val, "history") THEN r.val.history ELSE <<>>
             l == as_list(dict_get(h, "historyItem"))
         IN Ok([i \in DOMAIN l |-> Wrap("dict", l[i])])

\* the pair (people, organisations)
parties(resp) ==
    LET r == request_get(resp) IN
    IF r.kind = "raise" THEN r
    ELSE IF ~Has(r.val, "parties") THEN Raise("KeyError")
    ELSE LET people == as_list(dict_get(r.val.parties, "person"))
             organisations == as_list(dict_get(r.val.parties, "organisation"))
         IN Ok(<<[i \in DOMAIN people |-> Wrap("Person", people[i])],
                 [i \in DOMAIN organisations |->
                     Wrap("Organisation", organisations[i])]>>)

\* the list of custom-field entries of the response
opportunity_customfields(resp) ==
    LET r == request_get(resp) IN
    IF r.kind = "raise" THEN r
    ELSE IF ~Has(r.val, "customFields") THEN Raise("KeyError")
    ELSE Ok(as_list(dict_get(r.val.customFields, "customField")))

opportunity_tags(resp) ==
    LET r == request_get(resp) IN
    IF r.kind = "raise" THEN r
    ELSE IF ~Has(r.val, "tags") THEN Raise("KeyError")
    ELSE Ok(or_empty_list(dict_get(r.val.tags, "tag")))

(***************************************************************************)
(* The collection endpoints, each one request.                             *)
(***************************************************************************)
ObjA == [id |-> "1"]
ObjB == [id |-> "2"]
ObjC == [id |-> "3"]

\* the shapes the server gives a collection's element
Elements ==
    {StrVal("")} \cup {DictVal(o) : o \in {ObjA, ObjB, ObjC}}
    \cup {ListVal(l) : l \in SeqsUpTo({ObjA, ObjB, ObjC}, MaxListing)}

\* a dict with the key, or without it
Optional(key, values) == {<<>>} \cup {[k \in {key} |-> v] : v \in values}

Responses(envelope, element) ==
    {[status |-> "error", body |-> <<>>], [status |-> "ok", body |-> <<>>]}
    \cup {[status |-> "ok", body |-> [k \in {envelope} |-> inner]] :
              inner \in Optional(element, Elements)}

PartiesResponses ==
    {[status |-> "error", body |-> <<>>]}
    \cup {[status |-> "ok", body |-> [parties |-> p]] :
              p \in {<<>>, [person |-> DictVal(ObjA)],
                     [organisation |-> ListVal(<<ObjB, ObjA>>)],
                     [person |-> ListVal(<<ObjA, ObjB>>), organisation |-> StrVal("")],
                     [person |-> DictVal(ObjB), organisation |-> DictVal(ObjA)]}}

call_opportunities ==
    \E resp \in Responses("opportunities", "opportunity") :
        /\ log' = <<Sent(<<"opportunity">>, resp)>>
        /\ out' = Call("opportunities", opportunities(resp))
        /\ UNCHANGED <<entityVars, pc, entities, idx>>

call_parties ==
    \E resp \in PartiesResponses :
        /\ log' = <<Sent(<<"party">>, resp)>>
        /\ out' = Call("parties", parties(resp))
        /\ UNCHANGED <<entityVars, pc, entities, idx>>

call_tasks ==
    \E resp \in Responses("tasks", "task") :
        /\ log' = <<Sent(<<"tasks">>, resp)>>
        /\ out' = Call("tasks", tasks(resp))
        /\ UNCHANGED <<entityVars, pc, entities, idx>>

call_milestones ==
    \E resp \in Responses("milestones", "milestone") :
        /\ log' = <<Sent(<<"opportunity", "milestones">>, resp)>>
        /\ out' = Call("milestones", milestones(resp))
        /\ UNCHANGED <<entityVars, pc, entities, idx>>

call_users ==
    \E resp \in Responses("users", "user") :
        /\ log' = <<Sent(<<"users">>, resp)>>
        /\ out' = Call("users", users(resp))
        /\ UNCHANGED <<entityVars, pc, entities, idx>>

call_get_opportunity_history ==
    \E resp \in Responses("history", "historyItem") :
        /\ log' = <<Sent(<<"opportunity", "1", "history">>, resp)>>
        /\ out' = Call("get_opportunity_history", history(resp))
        /\ UNCHANGED <<entityVars, pc, entities, idx>>

call_get_party_history ==
    \E resp \in Responses("history", "historyItem") :
        /\ log' = <<Sent(<<"party", "1", "history">>, resp)>>
        /\ out' = Call("get_party_history", history(resp))
        /\ UNCHANGED <<entityVars, pc, entities, idx>>

InitClient ==
    /\ self = <<>>
    /\ arg = <<>>
    /\ ret = NoCall
    /\ pc = "start"
    /\ log = <<>>
    /\ entities = <<>>
    /\ idx = 0
    /\ out = NoCall

NextCollections ==
    \/ call_opportunities
    \/ call_parties
    \/ call_tasks
    \/ call_milestones
    \/ call_users
    \/ call_get_opportunity_history
    \/ call_get_party_history

SpecCollections == InitClient /\ [][NextCollections]_vars

(***************************************************************************)
(* full_opportunities: one step for each request it makes.                 *)
(***************************************************************************)
raw_of(list) == [i \in DOMAIN list |-> list[i].raw]

\* the operation ends: it returns the opportunities or raises
Finish(o) ==
    /\ out' = Call("full_opportunities", o)
    /\ pc' = IF o.kind = "ok" THEN "returned" ELSE "raised"

OpportunityA == [id |-> "1"]
OpportunityB == [id |-> "2"]

ListingResponses ==
    {[status |-> "error", body |-> <<>>]}
    \cup {[status |-> "ok", body |-> [opportunities |-> inner]] :
              inner \in Optional("opportunity",
                  {DictVal(OpportunityB)}
                  \cup {ListVal(l) :
                            l \in SeqsUpTo({OpportunityA, OpportunityB}, MaxListing)})}

CustomfieldsResponses ==
    {[status |-> "error", body |-> <<>>], [status |-> "ok", body |-> <<>>]}
    \cup {[status |-> "ok", body |-> [customFields |-> inner]] :
              inner \in Optional("customField",
                  {DictVal([label |-> "x", text |-> "t"]),
                   ListVal(<<[tag |-> "a", label |-> "Date", date |-> <<2021, 3, 1, 0>>],
                             [label |-> "y", number |-> "7"]>>)})}

TagsResponses ==
    {[status |-> "error", body |-> <<>>]}
    \cup {[status |-> "ok", body |-> [tags |-> inner]] :
              inner \in Optional("tag",
                  {StrVal(""), DictVal(TagA), ListVal(<<TagB, TagA>>)})}

\* opportunities = self.opportunities(**kwargs)
list_opportunities ==
    /\ pc = "start"
    /\ \E resp \in ListingResponses :
           LET o == opportunities(resp) IN
           /\ log' = <<Sent(<<"opportunity">>, resp)>>
           /\ IF o.kind = "raise"
              THEN Finish(o) /\ UNCHANGED <<entities, idx>>
              ELSE /\ entities' = raw_of(o.val)
                   /\ idx' = 1
                   /\ IF o.val = <<>>
                      THEN Finish(Ok(<<>>))
                      ELSE pc' = "customfields" /\ UNCHANGED out
    /\ UNCHANGED entityVars

\* the loop of full_opportunities that forgets the tags of each opportunity
inject_customfields_only ==
    /\ pc = "customfields"
    /\ LET id == getattr_fallback(entities[idx], "id") IN
       IF id.kind = "raise"
       THEN Finish(id) /\ UNCHANGED <<log, entities, idx>>
       ELSE \E resp \in CustomfieldsResponses :
               LET o == opportunity_customfields(resp) IN
               /\ log' = Append(log, Sent(<<"opportunity", id.val, "customfields">>, resp))
               /\ IF o.kind = "raise"
                  THEN Finish(o) /\ UNCHANGED <<entities, idx>>
                  ELSE /\ entities' =
                              [entities EXCEPT ![idx] = with_customfields(@, o.val)]
                       /\ idx' = idx + 1
                       /\ IF idx = Len(entities)
                          THEN Finish(Ok(entities'))
                          ELSE pc' = "customfields" /\ UNCHANGED out
    /\ UNCHANGED entityVars

\* self.inject_opportunity_customfields(opportunity): opportunity.id is looked
\* up through __getattr__ before the request is made
inject_opportunity_customfields ==
    /\ pc = "customfields"
    /\ LET id == getattr_fallback(entities[idx], "id") IN
       IF id.kind = "raise"
       THEN Finish(id) /\ UNCHANGED <<log, entities, idx>>
       ELSE \E resp \in CustomfieldsResponses :
               LET o == opportunity_customfields(resp) IN
               /\ log' = Append(log, Sent(<<"opportunity", id.val, "customfields">>, resp))
               /\ IF o.kind = "raise"
                  THEN Finish(o) /\ UNCHANGED entities
                  ELSE /\ entities' =
                              [entities EXCEPT ![idx] = with_customfields(@, o.val)]
                       /\ pc' = "tags"
                       /\ UNCHANGED out
    /\ UNCHANGED <<entityVars, idx>>

\* self.inject_opportunity_tags(opportunity), and the end of the loop's body
inject_opportunity_tags ==
    /\ pc = "tags"
    /\ LET id == getattr_fallback(entities[idx], "id") IN
       IF id.kind = "raise"
       THEN Finish(id) /\ UNCHANGED <<log, entities, idx>>
       ELSE \E resp \in TagsResponses :
               LET o == opportunity_tags(resp) IN
               /\ log' = Append(log, Sent(<<"opportunity", id.val, "tag">>, resp))
               /\ IF o.kind = "raise"
                  THEN Finish(o) /\ UNCHANGED <<entities, idx>>
                  ELSE /\ \E items \in Iterations(o.val) :
                              entities' =
                                  [entities EXCEPT ![idx] = Put(@, "tags_id", items)]
                       /\ idx' = idx + 1
                       /\ IF idx = Len(entities)
                          THEN Finish(Ok(entities'))
                          ELSE pc' = "customfields" /\ UNCHANGED out
    /\ UNCHANGED entityVars

NextFull ==
    \/ list_opportunities
    \/ inject_opportunity_customfields
    \/ inject_opportunity_tags

SpecFull == InitClient /\ [][NextFull]_vars

(***************************************************************************)
(* Properties of the custom fields.                                        *)
(***************************************************************************)
SameOutcome(a, b) == a.kind = b.kind /\ a.val = b.val

\* the entry has none of the keys text, boolean and number
NoTypeKey(e) == DOMAIN e \cap {"text", "boolean", "number"} = {}

\* the values an entry's text, boolean or number key stands for
Derived(e) ==
    (IF Has(e, "text") THEN {StrVal(e.text)} ELSE {})
    \cup (IF Has(e, "boolean") THEN {BoolVal(e.boolean = "true")} ELSE {})
    \cup (IF Has(e, "number") THEN {StrVal(e.number)} ELSE {})

\* customfields was read from the plain entries that were loaded
ReadLoadedFields ==
    /\ ret.op = "customfields"
    /\ Has(self, "raw_customfields")
    /\ self.raw_customfields # <<>>

\* C2: the datatags mapping of a loaded entity yields its dates in
\* non-decreasing order, also when two dated entries share a tag or label.
C2_DatatagsSortedByDate ==
    (ret.op = "datatags" /\ ret.kind = "ok" /\ Has(self, "raw_datatags"))
        => \A i, j \in DOMAIN ret.val :
               i < j => DateLeq(ret.val[i][2], ret.val[j][2])

\* C4, as claimed: every plain entry's label is mapped to the value derived
\* from that entry, and the access fails exactly when some entry has none of
\* text, boolean and number.
C4_EveryPlainEntryMapped ==
    ReadLoadedFields =>
        LET L == self.raw_customfields IN
        /\ ret.kind = "raise" <=> \E i \in DOMAIN L : NoTypeKey(L[i])
        /\ ret.kind = "ok" =>
               \A i \in DOMAIN L : ret.val[L[i].label] \in Derived(L[i])

\* C4, amended: the access fails exactly when some entry has none of text,
\* boolean and number (ValueError) or has no label (AttributeError), the first
\* such entry deciding which; otherwise the mapping holds exactly the entries'
\* labels, each with the value derived from the last entry that carries it (a
\* boolean being true exactly for the string "true").
C4_LastPlainEntryMapped ==
    ReadLoadedFields =>
        LET L == self.raw_customfields
            Bad(e) == NoTypeKey(e) \/ ~Has(e, "label")
            first == FirstTrue([i \in DOMAIN L |-> Bad(L[i])])
        IN
        /\ ret.kind = "raise" <=> first # 0
        /\ ret.kind = "raise" =>
               ret.val = IF NoTypeKey(L[first]) THEN "ValueError" ELSE "AttributeError"
        /\ ret.kind = "ok" =>
               /\ DOMAIN ret.val = {L[i].label : i \in DOMAIN L}
               /\ \A i \in DOMAIN L :
                      (\A j \in DOMAIN L : L[j].label = L[i].label => j <= i)
                          => ret.val[L[i].label] \in Derived(L[i])

\* a mapping was built in which "True" resolved to false and "true" to true
C4_Witness ==
    /\ ReadLoadedFields
    /\ ret.kind = "ok"
    /\ DOMAIN ret.val = {"x", "y"}
    /\ ret.val["x"] = BoolVal(TRUE)
    /\ ret.val["y"] = BoolVal(FALSE)

\* C6: customfields is computed from raw_customfields whenever that key is
\* present (also when it holds no entry), from the legacy customfields key
\* only when raw_customfields is absent, and signals AttributeError when
\* neither key is present.
C6_RawCustomfieldsPreferred ==
    ret.op = "customfields" =>
        IF Has(self, "raw_customfields")
        THEN SameOutcome(ret, fields_of(self.raw_customfields))
        ELSE IF Has(self, "customfields")
        THEN SameOutcome(ret, fields_of(self.customfields))
        ELSE ret.kind = "raise" /\ ret.val = "AttributeError"

(***************************************************************************)
(* Properties of Party and Person.                                         *)
(***************************************************************************)
\* the claimed outcome of emails / phone_numbers for the sub-key of contacts
ClaimedContacts(d, key, cls) ==
    IF \/ ~Has(d, "contacts")
       \/ d.contacts = StrVal("")
       \/ (d.contacts.type = "dict" /\ ~Has(d.contacts.d, key))
    THEN Raise("AttributeError")
    ELSE LET x == d.contacts.d[key] IN
         IF x.type = "dict" THEN Ok(<<Wrap(cls, x.d)>>)
         ELSE Ok([i \in DOMAIN x.l |-> Wrap(cls, x.l[i])])

\* C5: emails (resp. phone_numbers) signals AttributeError when contacts is
\* absent, empty or without the sub-key, returns a one-element list for a
\* single contact record and one sub-entity per record, in order, for a list.
C5_ContactAccessors ==
    /\ ret.op = "emails" => SameOutcome(ret, ClaimedContacts(self, "email", "Email"))
    /\ ret.op = "phone_numbers" =>
           SameOutcome(ret, ClaimedContacts(self, "phone", "Phone"))

\* a name of the backing record that is present and not empty
PresentName(d, key) == IF Has(d, key) /\ d[key].s # "" THEN <<d[key].s>> ELSE <<>>

\* C7: name never returns the empty string; it fails when firstName and
\* lastName are both absent, and otherwise returns the present first and last
\* names in that order.
C7_NameOfPerson ==
    ret.op = "name" =>
        /\ ~(ret.kind = "ok" /\ ret.val = <<>>)
        /\ (~Has(self, "firstName") /\ ~Has(self, "lastName")) => ret.kind = "raise"
        /\ PresentName(self, "firstName") \o PresentName(self, "lastName") # <<>> =>
               /\ ret.kind = "ok"
               /\ ret.val = PresentName(self, "firstName") \o PresentName(self, "lastName")

(***************************************************************************)
(* Properties of Opportunity.                                              *)
(***************************************************************************)
IsTrue(o) == o.kind = "ok" /\ o.val = BoolVal(TRUE)

\* C8: in every state of an Opportunity, whatever was loaded into it, open is
\* true exactly when actualCloseDate is absent; positive_outcome holds only
\* if the opportunity is closed with probability 100, negative_outcome only
\* if it is closed with probability 0; the two are never both true and
\* neither is true of an open opportunity.
C8_OpenAndOutcomes ==
    /\ ret.op = "open" => (IsTrue(ret) <=> ~Has(self, "actualCloseDate"))
    /\ (ret.op = "positive_outcome" /\ IsTrue(ret)) =>
           Has(self, "actualCloseDate") /\ probability(self) = Ok(100)
    /\ (ret.op = "negative_outcome" /\ IsTrue(ret)) =>
           Has(self, "actualCloseDate") /\ probability(self) = Ok(0)
    /\ ~(IsTrue(positive_outcome(self)) /\ IsTrue(negative_outcome(self)))
    /\ ~Has(self, "actualCloseDate") =>
           ~IsTrue(positive_outcome(self)) /\ ~IsTrue(negative_outcome(self))

\* positive_outcome was found true of an opportunity with everything loaded
C8_Witness ==
    /\ ret.op = "positive_outcome"
    /\ IsTrue(ret)
    /\ {"raw_customfields", "raw_datatags", "tags_id", "raw_tasks"} \subseteq DOMAIN self

toList(d, key) ==
    IF ~Has(d, key) \/ d[key] = StrVal("") THEN <<>>
    ELSE IF d[key].type = "dict" THEN <<d[key].d>>
    ELSE d[key].l

\* the response of the last request has the envelope
Enveloped(envelope) ==
    /\ log[1].resp.status = "ok"
    /\ Has(log[1].resp.body, envelope)

ClaimedListing(envelope, element, cls) ==
    LET l == toList(log[1].resp.body[envelope], element) IN
    Ok([i \in DOMAIN l |-> Wrap(cls, l[i])])

\* C3: each collection endpoint returns toList of the element of its
\* envelope, every element wrapped in the endpoint's entity type.
C3_EndpointsNormalise ==
    /\ (out.op = "opportunities" /\ Enveloped("opportunities")) =>
           SameOutcome(out, ClaimedListing("opportunities", "opportunity", "Opportunity"))
    /\ (out.op = "tasks" /\ Enveloped("tasks")) =>
           SameOutcome(out, ClaimedListing("tasks", "task", "Task"))
    /\ (out.op = "milestones" /\ Enveloped("milestones")) =>
           SameOutcome(out, ClaimedListing("milestones", "milestone", "dict"))
    /\ (out.op = "users" /\ Enveloped("users")) =>
           SameOutcome(out, ClaimedListing("users", "user", "dict"))
    /\ (out.op \in {"get_opportunity_history", "get_party_history"}
            /\ Enveloped("history")) =>
           SameOutcome(out, ClaimedListing("history", "historyItem", "dict"))
    /\ (out.op = "parties" /\ Enveloped("parties")) =>
           /\ out.kind = "ok"
           /\ out.val[1] = ClaimedListing("parties", "person", "Person").val
           /\ out.val[2] = ClaimedListing("parties", "organisation", "Organisation").val

\* the opportunities of the listing response, in the server's order
Listed == toList(log[1].resp.body.opportunities, "opportunity")

\* the requests full_opportunities is to make for the listed opportunities
RECURSIVE SubFetches(_)
SubFetches(l) ==
    IF l = <<>> THEN <<>>
    ELSE <<<<"opportunity", Head(l).id, "customfields">>,
           <<"opportunity", Head(l).id, "tag">>>> \o SubFetches(Tail(l))

\* the request was refused, or its answer could not be read
Failed(sent) ==
    \/ sent.resp.status = "error"
    \/ sent.req = <<"opportunity">> /\ ~Has(sent.resp.body, "opportunities")
    \/ sent.req[Len(sent.req)] = "customfields" /\ ~Has(sent.resp.body, "customFields")
    \/ sent.req[Len(sent.req)] = "tag" /\ ~Has(sent.resp.body, "tags")

\* C1: full_opportunities issues the listing request and then, for each
\* listed opportunity in the server's order, one custom-fields request
\* followed by one tags request, never repeating a request; it returns the
\* opportunities, in the server's order, only after every sub-fetch was made
\* and injected, and when a request fails it makes no further request, raises
\* and returns no entity.
C1_FullOpportunitiesSequence ==
    pc # "start" =>
        /\ log[1].req = <<"opportunity">>
        /\ \A i \in DOMAIN log : Failed(log[i]) => i = Len(log) /\ pc = "raised"
        /\ pc = "raised" <=> Failed(log[Len(log)])
        /\ pc = "raised" => out.op = "full_opportunities" /\ out.kind = "raise"
        /\ ~Failed(log[1]) =>
               LET expected == SubFetches(Listed) IN
               /\ Len(log) - 1 <= Len(expected)
               /\ \A i \in 1..(Len(log) - 1) : log[i + 1].req = expected[i]
               /\ pc = "customfields" => Len(log) = 2 * idx - 1
               /\ pc = "tags" => Len(log) = 2 * idx
               /\ pc \in {"customfields", "tags"} => out = NoCall
               /\ pc = "returned" =>
                      /\ Len(log) - 1 = Len(expected)
                      /\ out.op = "full_opportunities" /\ out.kind = "ok"
                      /\ Len(out.val) = Len(Listed)
                      /\ \A i \in DOMAIN Listed :
                             /\ out.val[i].id = Listed[i].id
                             /\ {"raw_customfields", "raw_datatags", "tags_id"}
                                    \subseteq DOMAIN out.val[i]

\* two opportunities were listed, enriched and returned
C1_Witness ==
    /\ pc = "returned"
    /\ Len(out.val) = 2
    /\ Len(log) = 5
    /\ out.val[1].id = "2"
    /\ out.val[2].id = "1"

\* C10: after inject_opportunity_tags the opportunity's tags_id holds exactly
\* the tag records the server returned, in its order (none for an absent or
\* falsy tag element, one for a single tag object, the items of a list), and
\* tags yields the name of each of them.
C10_TagsInjected ==
    \A i \in DOMAIN entities :
        Has(entities[i], "tags_id") =>
            LET returned == toList(log[2 * i + 1].resp.body.tags, "tag") IN
            /\ entities[i].tags_id = [j \in DOMAIN returned |-> DictVal(returned[j])]
            /\ SameOutcome(tags(entities[i]),
                           Ok([j \in DOMAIN returned |-> returned[j].name]))

====
